---- MODULE Spec2Model ----
(***************************************************************************)
(* The plan-execute agent of comps/agent/src/integrations/strategy/        *)
(* planexec/planner.py: the nodes Planner, Executor, AnswerMaker and       *)
(* Replanner, the two checkers, the graph PlanExecuteAgentWithLangGraph    *)
(* compiles, and its two run modes (non_streaming_run, stream_generator).  *)
(*                                                                         *)
(* Strings the code inspects (the graded score) are sequences of           *)
(* characters.  Other strings (queries, steps, outputs) are opaque.        *)
(* A dict is a function whose DOMAIN is the set of keys present.           *)
(***************************************************************************)
EXTENDS Integers, Sequences, FiniteSets, TLC

VARIABLES
    mode,         \* "none" | "sync" | "stream" | "unit": who drives the nodes
    thread_id,    \* <<>> (None) or <<t>>: stream_generator's thread_id
    g_threads,    \* threads_global_kv: thread id -> [inst, created_at, status]
    lock,         \* holder of threads_global_kv's lock: "free" | "run"
    reg_writes,   \* every write of the run to threads_global_kv, in order
    state,        \* the PlanExecute graph state (keys present = DOMAIN)
    active,       \* the nodes scheduled to run now
    run,          \* "idle" | "running" | "END" | "error"
    pc,           \* position inside the active node
    llm_out,      \* local `plan` / `output`: last parsed model result
    idx,          \* loop index over the plan (Planner's and Executor's for)
    acc,          \* local `steps` (Planner) / `out_state` (Executor)
    parse_fails,  \* OutputParserExceptions swallowed in this node call
    tries,        \* structured-output model calls made in this node call
    err,          \* <<>> or <<[type, node, at]>>: the exception that left a node
    faults,       \* model calls that failed other than by a parse failure
    given,        \* the state the node in progress was called with
    log,          \* node starts and returns, in order
    last_ret,     \* <<>> or <<[node, delta, ...]>>: the last node return
    prompts,      \* task_formatted of every agent call of this Executor call
    outputs,      \* agent_response["output"] of every agent call, in order
    answer_grade, \* the score the answer grader gives the produced answer
    checked,      \* the plan_checker calls made on the plan last generated
    iters,        \* steps the agent loop of the current agent call has taken
    recovered,    \* the agent loop fed a malformed model output back to it
    result,       \* <<>> or <<v>>: what non_streaming_run returned
    event,        \* <<>> or <<[node, delta]>>: the event astream just yielded
    spos,         \* position of stream_generator
    fq,           \* frames of the current event still to be yielded
    frames,       \* every frame the stream has yielded, in order
    polls,        \* the status read by every poll of the registry, in order
    at_done,      \* <<>> or <<s>>: the thread's status when [DONE] was yielded
    calls,        \* node calls made so far by a direct caller
    step_check,   \* <<>> or <<[score, verdict]>>: last PlanStepChecker call
    final_check,  \* <<>> or <<[score, verdict]>>: last FinalAnswerChecker call
    tools,        \* the tools the Executor was constructed with
    built,        \* construction of the agent: "no" | "ok" | "ValueError"
    pollers,      \* concurrent streaming runs of one thread: where each is
    requests      \* cancellation requests posted while those runs went on

nodeVars   == <<state, active, run, pc, llm_out, idx, acc, parse_fails, tries,
                err, faults, given, log, last_ret, prompts, outputs,
                answer_grade, checked, iters, recovered>>
agentVars  == <<iters, recovered>>
driveVars  == <<mode, result, calls>>
streamVars == <<thread_id, event, spos, fq, frames, polls, at_done>>
regVars    == <<g_threads, lock, reg_writes>>
checkVars  == <<step_check, final_check>>
buildVars  == <<tools, built>>
pollVars   == <<pollers, requests>>
vars       == <<nodeVars, driveVars, streamVars, regVars, checkVars,
                buildVars, pollVars>>

----------------------------------------------------------------------------
(* Bounds of the model *)

MaxPlanLen  == 2    \* longest plan the model emits
MaxAttempts == 3    \* structured-output calls followed inside one node call
MaxCalls    == 3    \* node calls of a direct caller
MaxScoreLen == 3    \* longest score string drawn from ScoreChars
MaxEvents   == 2    \* events astream gives each of the concurrent runs
MaxRequests == 2    \* cancellation requests posted to concurrent runs

(* Program constants *)

max_iterations == 50

----------------------------------------------------------------------------
(* Values *)

\* the request is carried, never inspected: one value stands for all
Queries   == {"q1"}
StepTexts == {"s1", "s2"}

\* A text is the sequence of its pieces: a piece is one character, or a chunk
\* of printable ASCII characters other than the quotes and the backslash.
\* Characters a TLA+ string cannot hold are written by name.
VT     == "<U+000B>"    \* vertical tab
ESC    == "<U+001B>"    \* escape
DEL    == "<U+007F>"    \* delete
NBSP   == "<U+00A0>"    \* no-break space
EACUTE == "<U+00E9>"    \* e with acute accent
ZWSP   == "<U+200B>"    \* zero width space
TAG    == "<U+E0001>"   \* language tag

\* the code point of the characters that are not printable ASCII
CodePoint ==
    "\t" :> 9 @@ "\n" :> 10 @@ VT :> 11 @@ "\f" :> 12 @@ "\r" :> 13
    @@ ESC :> 27 @@ DEL :> 127 @@ NBSP :> 160 @@ EACUTE :> 233
    @@ ZWSP :> 8203 @@ TAG :> 917505

\* those of them above ASCII that str.isprintable() rejects
NonPrintable == { NBSP, ZWSP, TAG }

\* an agent output with an apostrophe only
OutApostrophe == << "it", "'", "s" >>
\* an agent output with a newline, both quotes, a backslash, a form feed and
\* a zero width space
OutMixed == << "a", "\n", "'", "\"", "\\", "\f", ZWSP >>
Outputs   == { OutApostrophe, OutMixed }
Answers   == {"a1", "a2"}
ThreadIds == {"t1", "t2"}

\* the thread_id arguments followed: None, or a registered thread
RunThreads == { <<>>, << "t1" >> }

START == "__start__"
END   == "__end__"

Yes == <<"y", "e", "s">>
ScoreChars == {"y", "e", "s", "Y"}

RECURSIVE SeqsUpTo(_, _)
SeqsUpTo(S, n) ==
    IF n = 0 THEN {<<>>}
    ELSE LET shorter == SeqsUpTo(S, n - 1)
         IN  shorter \cup {Append(s, x) : s \in shorter, x \in S}

\* the scores of the spec's examples, and every short string over ScoreChars
ScoreSamples == { Yes, <<"Y", "e", "s">>, <<"n", "o">>, <<>>,
                  <<"m", "a", "y", "b", "e">>, <<"y", "e", "s", "!">> }
Scores == ScoreSamples \cup SeqsUpTo(ScoreChars, MaxScoreLen)

Plans == SeqsUpTo(StepTexts, MaxPlanLen)

\* the verdicts used while a run is followed
RunScores == { Yes, <<"n", "o">>, <<"Y", "e", "s">> }

\* the scores the answer grader may give a produced answer
AnswerGrades == { Yes, <<"n", "o">> }

\* tools by the number of inputs they take
ToolBox  == { [name |-> "clock",  nargs |-> 0],
              [name |-> "search", nargs |-> 1],
              [name |-> "lookup", nargs |-> 2] }
ToolSets == SUBSET ToolBox
\* the tools of an agent that is already constructed
DefaultTools == { [name |-> "search", nargs |-> 1] }

----------------------------------------------------------------------------
(* The checkers *)

\* a comparison with the whole string instead of its prefix
equals_str(s, prefix) == s = prefix

\* str.startswith
startswith(s, prefix) ==
    /\ Len(s) >= Len(prefix)
    /\ SubSeq(s, 1, Len(prefix)) = prefix

PlanStepChecker(sc) == IF startswith(sc, Yes) THEN TRUE ELSE FALSE

\* what a call that raises KeyError yields instead of a verdict
KeyError == "KeyError"

\* the grade is printed with `state['response']` before it is routed on: a
\* state without that key raises and no verdict is returned
FinalAnswerChecker(st, sc) ==
    IF "response" \notin DOMAIN st THEN KeyError
    ELSE IF startswith(sc, Yes) THEN END ELSE "replan"

----------------------------------------------------------------------------
(* The graph state and its reducers *)

\* a state in which every field is overwritten by an update
ReduceOverwrite(k, old, new) == new

\* PlanExecute: messages and past_steps carry a reducer, the rest is overwritten
Reduce(k, old, new) ==
    IF k \in {"messages", "past_steps"} THEN old \o new ELSE new

Merge(s, d) ==
    [k \in DOMAIN s \cup DOMAIN d |->
        IF k \in DOMAIN d
        THEN IF k \in DOMAIN s THEN Reduce(k, s[k], d[k]) ELSE d[k]
        ELSE s[k]]

EmptyState == [messages |-> <<>>, past_steps |-> <<>>]

prepare_initial_state(query) ==
    [messages |-> << [role |-> "user", content |-> query] >>]

\* the graph PlanExecuteAgentWithLangGraph.__init__ compiles
Nodes == {"planner", "plan_executor", "answer_maker"}

\* a graph in which the planner fans out to both later nodes
EdgesFanOut == { <<START, "planner">>,
                 <<"planner", "plan_executor">>,
                 <<"planner", "answer_maker">>,
                 <<"plan_executor", "answer_maker">>,
                 <<"answer_maker", END>> }

Edges == { <<START, "planner">>,
           <<"planner", "plan_executor">>,
           <<"plan_executor", "answer_maker">>,
           <<"answer_maker", END>> }

\* successors in a graph whose answer maker leads back to the planner
SuccWithCycle(n) ==
    IF n = "answer_maker" THEN {"planner"}
    ELSE { e[2] : e \in { x \in Edges : x[1] = n } }

\* the nodes the edges added with add_edge lead to from n
Succ(n) == { e[2] : e \in { x \in Edges : x[1] = n } }

EntryPc(S) ==
    IF "planner" \in S THEN "gen"
    ELSE IF "plan_executor" \in S THEN "exec"
    ELSE IF "answer_maker" \in S THEN "make"
    ELSE IF "replanner" \in S THEN "regen"
    ELSE "none"

Starts(S) == IF S = {} THEN <<>>
             ELSE << [ev |-> "start", nodes |-> S] >>

----------------------------------------------------------------------------
(* How a node call ends *)

user_input == state["messages"][Len(state["messages"])].content

\* the node returns delta d: the graph merges it, emits the event of the
\* stream mode, and schedules the successors of n
Return(n, d, src) ==
    LET nxt == IF mode = "unit" THEN {} ELSE Succ(n)
        act == (active \ {n}) \cup (nxt \ {END})
    IN  /\ state' = Merge(state, d)
        /\ active' = act
        /\ run' = IF act # {} THEN "running"
                  ELSE IF mode = "unit" THEN "idle" ELSE "END"
        /\ pc' = EntryPc(act)
        /\ llm_out' = <<>>
        /\ idx' = 1
        /\ acc' = <<>>
        /\ parse_fails' = 0
        /\ tries' = 0
        /\ log' = log \o << [ev |-> "return", nodes |-> {n}, delta |-> d] >>
                     \o Starts(act)
        /\ given' = state'
        /\ last_ret' = << [node |-> n, delta |-> d,
                           tries |-> IF pc = "check" THEN tries ELSE tries + 1,
                           parse_fails |-> parse_fails, from |-> src,
                           before |-> state] >>
        /\ event' = IF mode = "stream" THEN << [node |-> n, delta |-> d] >>
                    ELSE <<>>
        /\ UNCHANGED <<err, faults, mode, result, calls, thread_id, at_done, spos, fq,
                       frames, polls, regVars, checkVars, buildVars, pollVars>>

\* str(e): the message an exception carries
str_e(e) ==
    CASE e = "Exception"             -> "model call failed"
      [] e = "OutputParserException" -> "could not parse the model output"
      [] e = "CheckerError"          -> "no grade in the model output"
      [] e = "AgentError"            -> "agent call failed"
      [] e = "KeyError"              -> "'output'"

\* a synchronous run without its handler: nothing is returned
sync_exception_propagates(e, res) == res

\* `except Exception as e: return str(e)` of non_streaming_run
on_sync_exception(e, res) == << str_e(e) >>

\* a generator that swallows the failure and ends as after a full run
StreamExceptionSwallowed(fs) ==
    [spos |-> "done", frames |-> Append(fs, [kind |-> "done"])]

\* stream_generator has no handler around astream: the exception leaves the
\* generator where it awaits the next event, and nothing more is yielded
StreamOnException(fs) == [spos |-> "raised", frames |-> fs]

\* exception e leaves node n: no update is merged; non_streaming_run returns
\* str(e), stream_generator lets it propagate to its consumer
RaiseWith(n, e, where, f) ==
    /\ err' = << [type |-> e, node |-> n, at |-> where,
                  nframes |-> Len(frames)] >>
    /\ faults' = f
    /\ run' = "error"
    /\ active' = {}
    /\ pc' = "none"
    /\ log' = Append(log, [ev |-> "raise", nodes |-> {n}])
    /\ result' = IF mode = "sync" THEN on_sync_exception(e, result) ELSE result
    /\ spos' = IF mode = "stream" THEN StreamOnException(frames).spos ELSE spos
    /\ frames' = IF mode = "stream" THEN StreamOnException(frames).frames
                  ELSE frames
    /\ UNCHANGED <<state, llm_out, idx, acc, parse_fails, tries, given,
                   last_ret, mode, calls, thread_id, event, fq, polls, at_done,
                   regVars, checkVars, buildVars, pollVars>>

Raise(n, e, where) == RaiseWith(n, e, where, faults)

\* a handler that lets the parse failure leave the node
ParserExceptionPropagates(n) ==
    RaiseWith(n, "OutputParserException", "llm", faults)

\* `except OutputParserException: pass`: the while loop calls the model again
OnOutputParserException(n) ==
    /\ tries' = tries + 1
    /\ parse_fails' = parse_fails + 1
    /\ UNCHANGED <<state, active, run, pc, llm_out, idx, acc, err, faults,
                   given, log, last_ret, driveVars, streamVars, regVars,
                   checkVars, buildVars, pollVars>>

\* a handler that swallows every exception and lets the loop call again
OtherExceptionSwallowed(n) ==
    /\ tries' = tries + 1
    /\ faults' = faults + 1
    /\ UNCHANGED <<state, active, run, pc, llm_out, idx, acc, parse_fails, err,
                   given, log, last_ret, driveVars, streamVars, regVars,
                   checkVars, buildVars, pollVars>>

\* `except Exception as e: raise e`
OnException(n) == RaiseWith(n, "Exception", "llm", faults + 1)

\* the node-running loop of the graph advances only while its driver pulls it
Driving ==
    /\ run = "running"
    /\ mode = "stream" => (spos = "next" /\ event = <<>>)

----------------------------------------------------------------------------
(* Planner.__call__ *)

\* a planner that never discards the filtered plan
PlanAcceptedAlways(steps) == TRUE

\* `if len(steps) == 0: success = False`: the outer loop ends only with a
\* step that the checker kept
PlanAccepted(steps) == Len(steps) # 0

\* `return {"input": input, "plan": steps}`
PlannerResult(input, steps) == [input |-> input, plan |-> steps]

\* one call of __llm_invoke__ inside the inner while loop
PlannerInvoke ==
    /\ Driving
    /\ "planner" \in active
    /\ pc = "gen"
    /\ tries < MaxAttempts
    /\ UNCHANGED <<prompts, outputs, answer_grade, agentVars>>
    /\ checked' = <<>>
    /\ \/ OnOutputParserException("planner")
       \/ OnException("planner")
       \/ \E p \in Plans :
            IF Len(p) = 0 /\ PlanAccepted(<<>>)
            THEN Return("planner", PlannerResult(user_input, <<>>), p)
            ELSE /\ llm_out' = p
                 /\ tries' = tries + 1
                 /\ pc' = IF Len(p) = 0 THEN "gen" ELSE "check"
                 /\ idx' = 1
                 /\ acc' = <<>>
                 /\ UNCHANGED <<state, active, run, parse_fails, err, faults,
                                given, log, last_ret, driveVars, streamVars,
                                regVars, checkVars, buildVars, pollVars>>

\* an outer loop that checks the discarded plan again instead of generating
recheck_same_plan == "check"

\* `success = False` after an empty filtered list: the outer while loop
\* enters the inner one again, which calls the model for a fresh plan
after_rejection == "gen"

\* a filter that puts a kept step in front of the steps kept before it
KeptInFront(sc) ==
    IF PlanStepChecker(sc) THEN << llm_out[idx] >> \o acc ELSE acc

\* the steps kept after the checker graded step idx with score sc
Kept(sc) == IF PlanStepChecker(sc) THEN Append(acc, llm_out[idx]) ELSE acc

\* one iteration of `for step in plan.steps`, and what follows the last one
PlannerCheck ==
    /\ Driving
    /\ "planner" \in active
    /\ pc = "check"
    /\ UNCHANGED <<prompts, outputs, answer_grade, agentVars>>
    /\ \/ /\ Raise("planner", "CheckerError", "plan_checker")
          /\ UNCHANGED checked
       \/ \E sc \in RunScores :
            LET steps == Kept(sc) IN
            /\ checked' = Append(checked, [context  |-> llm_out[idx],
                                           question |-> user_input,
                                           verdict  |-> PlanStepChecker(sc)])
            /\ IF idx < Len(llm_out)
               THEN /\ idx' = idx + 1
                    /\ acc' = steps
                    /\ UNCHANGED <<state, active, run, pc, llm_out, parse_fails,
                                   tries, err, faults, given, log, last_ret,
                                   driveVars, streamVars, regVars, checkVars,
                                   buildVars, pollVars>>
               ELSE IF ~PlanAccepted(steps)
               THEN /\ pc' = after_rejection
                    /\ idx' = 1
                    /\ acc' = <<>>
                    /\ UNCHANGED <<state, active, run, llm_out, parse_fails,
                                   tries, err, faults, given, log, last_ret,
                                   driveVars, streamVars, regVars, checkVars,
                                   buildVars, pollVars>>
               ELSE Return("planner", PlannerResult(user_input, steps), llm_out)

----------------------------------------------------------------------------
(* Executor.__call__ *)

\* f"Task is {step}, Response is {output}"
fmt_entry(step, output) == << "Task is ", step, ", Response is " >> \o output

\* the quote str.__repr__ puts around s: double quotes when s has an
\* apostrophe and no double quote, else apostrophes
repr_quote(s) ==
    IF (\E i \in 1..Len(s) : s[i] = "'") /\ ~(\E i \in 1..Len(s) : s[i] = "\"")
    THEN "\"" ELSE "'"

HexDigits == << "0", "1", "2", "3", "4", "5", "6", "7",
               "8", "9", "a", "b", "c", "d", "e", "f" >>

RECURSIVE Hex(_, _)
\* n in w lowercase hexadecimal digits
Hex(n, w) ==
    IF w = 0 THEN <<>>
    ELSE Hex(n \div 16, w - 1) \o << HexDigits[(n % 16) + 1] >>

RECURSIVE Flatten(_)
\* the sequences of ss one after the other
Flatten(ss) == IF ss = <<>> THEN <<>> ELSE Head(ss) \o Flatten(Tail(ss))

\* an escaping that leaves every character as it is
repr_char_raw(c, q) == << c >>

\* one piece of a string as str.__repr__ writes it between quotes q: the
\* quote and the backslash behind a backslash, tab, newline and carriage
\* return as \t \n \r, any other control character and DEL as \xNN, a
\* character above ASCII that is not printable as \xNN, \uNNNN or
\* \UNNNNNNNN by its size, and every other character as it is
repr_char(c, q) ==
    IF c = q \/ c = "\\" THEN << "\\", c >>
    ELSE IF c = "\t" THEN << "\\", "t" >>
    ELSE IF c = "\n" THEN << "\\", "n" >>
    ELSE IF c = "\r" THEN << "\\", "r" >>
    ELSE IF c \notin DOMAIN CodePoint THEN << c >>
    ELSE LET ch == CodePoint[c]
         IN  IF ch < 32 \/ ch = 127 THEN << "\\", "x" >> \o Hex(ch, 2)
             ELSE IF c \notin NonPrintable THEN << c >>
             ELSE IF ch <= 255 THEN << "\\", "x" >> \o Hex(ch, 2)
             ELSE IF ch <= 65535 THEN << "\\", "u" >> \o Hex(ch, 4)
             ELSE << "\\", "U" >> \o Hex(ch, 8)

\* repr() of a str
repr_str(s) ==
    LET q == repr_quote(s)
    IN  << q >> \o Flatten([i \in 1..Len(s) |-> repr_char(s[i], q)]) \o << q >>

RECURSIVE repr_items(_)
repr_items(l) ==
    IF l = <<>> THEN <<>>
    ELSE IF Len(l) = 1 THEN repr_str(l[1])
    ELSE repr_str(Head(l)) \o << ", " >> \o repr_items(Tail(l))

\* repr() of a list of str, which is what `{out_state}` interpolates
repr_list(l) == << "[" >> \o repr_items(l) \o << "]" >>

\* the f-string task_formatted, as its pieces in order
task_formatted(step, out_state) ==
    << "\nYou are tasked with executing ", step,
       ".\n\nYou can leverage output from previous steps to help you.\nprevious steps and output: " >>
    \o repr_list(out_state) \o << "\n" >>

\* an assignment where the code appends
assign_out(out_state, step, output) == << fmt_entry(step, output) >>

\* `out_state.append(f"Task is {step}, Response is {output}")`
append_out(out_state, step, output) ==
    Append(out_state, fmt_entry(step, output))

\* `return {"past_steps": out_state}`
ExecutorResult(out_state) == [past_steps |-> out_state]

\* the Executor is at an iteration of `for i, step in enumerate(plan)`
ExecutorAt ==
    /\ Driving
    /\ "plan_executor" \in active
    /\ pc = "exec"
    /\ UNCHANGED answer_grade

\* the for loop has nothing to iterate over
ExecutorEmptyPlan ==
    /\ prompts' = <<>>
    /\ outputs' = <<>>
    /\ checked' = <<>>
    /\ Return("plan_executor", ExecutorResult(<<>>), <<>>)

\* `self.agent_executor.invoke({"input": task_formatted})` raises: nothing
\* in Executor.__call__ handles it
AgentRaises ==
    LET plan == state["plan"]
        seen == IF idx = 1 THEN <<>> ELSE prompts
        outs == IF idx = 1 THEN <<>> ELSE outputs
    IN  /\ Raise("plan_executor", "AgentError", "agent")
        /\ prompts' = Append(seen, task_formatted(plan[idx], acc))
        /\ outputs' = outs
        /\ UNCHANGED checked

\* the agent call returns a response with an output in Os: the entry of the
\* step is appended and the for loop goes to the next step or ends
AgentReturns(Os) ==
    LET plan == state["plan"]
        seen == IF idx = 1 THEN <<>> ELSE prompts
        outs == IF idx = 1 THEN <<>> ELSE outputs
    IN  \E out \in Os :
          LET out_state == append_out(acc, plan[idx], out)
          IN  /\ prompts' = Append(seen, task_formatted(plan[idx], acc))
              /\ outputs' = Append(outs, out)
              /\ checked' = IF idx < Len(plan) THEN checked ELSE <<>>
              /\ IF idx < Len(plan)
                 THEN /\ idx' = idx + 1
                      /\ acc' = out_state
                      /\ UNCHANGED <<state, active, run, pc, llm_out,
                                     parse_fails, tries, err, faults, given,
                                     log, last_ret, driveVars, streamVars,
                                     regVars, checkVars, buildVars, pollVars>>
                 ELSE Return("plan_executor", ExecutorResult(out_state), <<>>)

\* one iteration of `for i, step in enumerate(plan)`: one agent call, taken
\* as a whole
ExecutorStep ==
    /\ ExecutorAt
    /\ UNCHANGED agentVars
    /\ IF Len(state["plan"]) = 0
       THEN ExecutorEmptyPlan
       ELSE AgentRaises \/ AgentReturns(Outputs)

----------------------------------------------------------------------------
(* Executor.__init__ *)

\* utils.has_multi_tool_inputs: some tool takes more than one input
has_multi_tool_inputs(ts) == \E t \in ts : t.nargs > 1

\* a constructor that takes every tool set
ExecutorInitAny(ts) == TRUE

\* `if has_multi_tool_inputs(tools): raise ValueError(...)`: TRUE when the
\* constructor goes on to build the agent executor
ExecutorInitOk(ts) == ~has_multi_tool_inputs(ts)

----------------------------------------------------------------------------
(* AnswerMaker.__call__ *)

\* an AnswerMaker that also empties the plan it answered
AnswerMakerResultClearsPlan(output) ==
    [output |-> output.response, plan |-> <<>>]

\* `return {"output": output.response}`
AnswerMakerResult(output) == [output |-> output.response]

AnswerMakerInvoke ==
    /\ Driving
    /\ "answer_maker" \in active
    /\ pc = "make"
    /\ tries < MaxAttempts
    /\ UNCHANGED <<prompts, outputs, agentVars>>
    /\ \/ /\ OnOutputParserException("answer_maker")
          /\ UNCHANGED <<answer_grade, checked>>
       \/ /\ OnException("answer_maker")
          /\ UNCHANGED <<answer_grade, checked>>
       \/ \E a \in Answers, g \in AnswerGrades :
            LET output == [response |-> a]
            IN  /\ answer_grade' = g
                /\ checked' = <<>>
                /\ Return("answer_maker", AnswerMakerResult(output),
                          << output.response >>)

----------------------------------------------------------------------------
(* non_streaming_run *)

StartGraph(q) ==
    /\ state' = Merge(EmptyState, prepare_initial_state(q))
    /\ active' = Succ(START)
    /\ run' = "running"
    /\ pc' = EntryPc(Succ(START))
    /\ log' = Starts(Succ(START))
    /\ given' = state'
    /\ UNCHANGED <<llm_out, idx, acc, parse_fails, tries, err, faults,
                   last_ret, prompts, outputs, answer_grade, checked,
                   agentVars>>

non_streaming_run ==
    /\ mode = "none"
    /\ \E q \in Queries : StartGraph(q)
    /\ mode' = "sync"
    /\ UNCHANGED <<result, calls, streamVars, regVars, checkVars, buildVars, pollVars>>

\* a return value taken from another field of the final state
last_message_input(s) == s["input"]

\* `last_message = s["output"]`
last_message(s) == s["output"]

\* astream is exhausted: `last_message = s["output"]; return last_message`
SyncReturn ==
    /\ mode = "sync"
    /\ run = "END"
    /\ result = <<>>
    /\ result' = IF "output" \in DOMAIN state THEN << last_message(state) >>
                 ELSE on_sync_exception("KeyError", result)
    /\ UNCHANGED <<nodeVars, mode, calls, streamVars, regVars, checkVars, buildVars, pollVars>>

----------------------------------------------------------------------------
(* stream_generator *)

\* the order in which the nodes' dict literals list their keys
KeyOrder == << "input", "plan", "past_steps", "output" >>

Ack  == [kind |-> "ack"]
Done == [kind |-> "done"]

\* the frames of an event with its "data: " line put first
EventFramesDataFirst(ev) ==
    LET keys == SelectSeq(KeyOrder, LAMBDA k : k \in DOMAIN ev.delta)
    IN  << [kind |-> "data", node |-> ev.node, event |-> ev] >>
        \o << [kind |-> "call", node |-> ev.node] >>
        \o [i \in 1..Len(keys) |->
              [kind |-> "field", node |-> ev.node, key |-> keys[i],
               value |-> ev.delta[keys[i]]]]

\* the frames of one event, in the order the loop body yields them:
\* "--- CALL <node> ---", one "<k>: <v>" per field, then "data: <event>"
EventFrames(ev) ==
    LET keys == SelectSeq(KeyOrder, LAMBDA k : k \in DOMAIN ev.delta)
    IN  << [kind |-> "call", node |-> ev.node] >>
        \o [i \in 1..Len(keys) |->
              [kind |-> "field", node |-> ev.node, key |-> keys[i],
               value |-> ev.delta[keys[i]]]]
        \o << [kind |-> "data", node |-> ev.node, event |-> ev] >>

stream_generator ==
    /\ mode = "none"
    /\ \E q \in Queries : StartGraph(q)
    /\ \E tid \in RunThreads : thread_id' = tid
    /\ mode' = "stream"
    /\ spos' = "next"
    /\ UNCHANGED <<result, calls, event, fq, frames, polls, at_done, regVars,
                   checkVars, buildVars, pollVars>>

\* the loop body up to its first yield, entered with the event astream gave:
\* the registry is read under its lock; a cancellation request suspends the
\* generator at the yield of the acknowledgment, inside the with block
StreamPoll ==
    /\ mode = "stream"
    /\ spos = "next"
    /\ event # <<>>
    /\ thread_id # <<>> => lock = "free"
    /\ polls' = IF thread_id # <<>>
                THEN Append(polls, g_threads[thread_id[1]].status)
                ELSE polls
    /\ IF thread_id # <<>> /\ g_threads[thread_id[1]].status = "try_cancel"
       THEN /\ frames' = Append(frames, Ack)
            /\ spos' = "ack"
            /\ lock' = "run"
            /\ UNCHANGED <<fq, event>>
       ELSE LET fs == EventFrames(event[1])
            IN  /\ frames' = Append(frames, Head(fs))
                /\ fq' = Tail(fs)
                /\ spos' = "frames"
                /\ event' = <<>>
                /\ UNCHANGED lock
    /\ UNCHANGED <<nodeVars, driveVars, thread_id, at_done, g_threads, reg_writes,
                   checkVars, buildVars, pollVars>>

\* an acknowledgment that also stamps the entry anew
reset_entry_restamped(entry) ==
    [entry EXCEPT !.status = "ready", !.created_at = entry.created_at + 1]

\* `(thread_inst, created_at, "ready")`, built from the entry read
reset_entry(entry) == [entry EXCEPT !.status = "ready"]

\* a generator that ends after the break without its last frame
after_loop_silent(fs) == fs

\* `yield "data: [DONE]\n\n"`, the statement after the loop
after_loop(fs) == Append(fs, Done)

\* a loop body that goes on after the acknowledgment
no_break_after_ack == FALSE

\* the `break` that follows the reset of the status
break_after_ack == TRUE

\* the consumer resumes the generator suspended at the acknowledgment: the
\* status is reset, the loop is left, the lock released, and the generator
\* suspends again at the yield of "data: [DONE]"
StreamResumeAck ==
    /\ mode = "stream"
    /\ spos = "ack"
    /\ g_threads' = [g_threads EXCEPT
                       ![thread_id[1]] = reset_entry(g_threads[thread_id[1]])]
    /\ reg_writes' = Append(reg_writes,
                            [key |-> thread_id[1],
                             old |-> g_threads[thread_id[1]],
                             new |-> g_threads'[thread_id[1]]])
    /\ lock' = "free"
    /\ IF break_after_ack
       THEN /\ frames' = after_loop(frames)
            /\ spos' = "done"
            /\ UNCHANGED <<fq, event>>
       ELSE LET fs == EventFrames(event[1])
            IN  /\ frames' = Append(frames, Head(fs))
                /\ fq' = Tail(fs)
                /\ spos' = "frames"
                /\ event' = <<>>
    /\ at_done' = << g_threads'[thread_id[1]].status >>
    /\ UNCHANGED <<nodeVars, driveVars, thread_id, polls, checkVars, buildVars,
                   pollVars>>

\* the consumer resumes the generator suspended at a frame of an event: the
\* next frame of the event is yielded, or the loop asks astream for more
StreamResume ==
    /\ mode = "stream"
    /\ spos = "frames"
    /\ IF fq # <<>>
       THEN /\ frames' = Append(frames, Head(fq))
            /\ fq' = Tail(fq)
            /\ UNCHANGED spos
       ELSE /\ spos' = "next"
            /\ UNCHANGED <<frames, fq>>
    /\ UNCHANGED <<nodeVars, driveVars, thread_id, event, polls, at_done, regVars,
                   checkVars, buildVars, pollVars>>

\* astream is exhausted: the generator yields "data: [DONE]"
StreamDone ==
    /\ mode = "stream"
    /\ spos = "next"
    /\ run = "END"
    /\ event = <<>>
    /\ frames' = after_loop(frames)
    /\ at_done' = IF thread_id # <<>> THEN << g_threads[thread_id[1]].status >>
                  ELSE <<>>
    /\ spos' = "done"
    /\ UNCHANGED <<nodeVars, driveVars, thread_id, event, fq, polls, regVars,
                   checkVars, buildVars, pollVars>>

\* the consumer resumes the generator suspended at "data: [DONE]": it ends
StreamFinish ==
    /\ mode = "stream"
    /\ spos = "done"
    /\ spos' = "finished"
    /\ UNCHANGED <<nodeVars, driveVars, thread_id, event, fq, frames, polls,
                   at_done,
                   regVars, checkVars, buildVars, pollVars>>

\* the consumer closes the suspended generator: GeneratorExit is raised at
\* the yield, and a with block it is suspended in releases the lock
StreamClose ==
    /\ mode = "stream"
    /\ spos \in {"ack", "frames", "done"}
    /\ spos' = "closed"
    /\ lock' = "free"
    /\ UNCHANGED <<nodeVars, driveVars, thread_id, event, fq, frames, polls,
                   at_done,
                   g_threads, reg_writes, checkVars, buildVars, pollVars>>

\* the session layer posts a cancellation request for thread t
RequestCancel ==
    /\ mode = "stream"
    /\ lock = "free"
    /\ \E t \in ThreadIds :
         /\ g_threads[t].status # "try_cancel"
         /\ g_threads' = [g_threads EXCEPT ![t].status = "try_cancel"]
    /\ UNCHANGED <<nodeVars, driveVars, streamVars, lock, reg_writes,
                   checkVars, buildVars, pollVars>>

----------------------------------------------------------------------------

\* the registry as the session layer filled it before a run
Registered(st) ==
    [t \in ThreadIds |-> [inst |-> t, created_at |-> 0, status |-> st]]

Registry0 == { Registered(st) : st \in {"ready", "running"} }

NoRun ==
    /\ thread_id = <<>>
    /\ lock = "free"
    /\ reg_writes = <<>>
    /\ active = {}
    /\ run = "idle"
    /\ pc = "none"
    /\ llm_out = <<>>
    /\ idx = 1
    /\ acc = <<>>
    /\ parse_fails = 0
    /\ tries = 0
    /\ err = <<>>
    /\ faults = 0
    /\ given = state
    /\ log = <<>>
    /\ last_ret = <<>>
    /\ prompts = <<>>
    /\ outputs = <<>>
    /\ answer_grade = <<>>
    /\ checked = <<>>
    /\ iters = 0
    /\ recovered = FALSE
    /\ result = <<>>
    /\ event = <<>>
    /\ spos = "off"
    /\ fq = <<>>
    /\ frames = <<>>
    /\ polls = <<>>
    /\ at_done = <<>>
    /\ calls = 0
    /\ step_check = <<>>
    /\ final_check = <<>>

\* a constructed agent, and no concurrent runs
Idle ==
    /\ tools = DefaultTools
    /\ built = "ok"
    /\ pollers = <<>>
    /\ requests = 0
    /\ NoRun

Init ==
    /\ mode = "none"
    /\ state = EmptyState
    /\ g_threads \in Registry0
    /\ Idle

Next ==
    \/ non_streaming_run
    \/ PlannerInvoke
    \/ PlannerCheck
    \/ ExecutorStep
    \/ AnswerMakerInvoke
    \/ SyncReturn
    \/ stream_generator
    \/ StreamPoll
    \/ StreamResumeAck
    \/ StreamResume
    \/ StreamDone
    \/ StreamFinish
    \/ StreamClose
    \/ RequestCancel

Spec == Init /\ [][Next]_vars

----------------------------------------------------------------------------
(* Replanner.__call__ *)

\* a replanner that also rewrites the input field
ReplannerResultWithInput(output) ==
    [plan |-> output.steps, input |-> "replanned"]

\* a Replanner that returns the first step only of the plan it got
ReplannerResultFirstStep(output) ==
    [plan |-> IF output.steps = <<>> THEN <<>> ELSE << Head(output.steps) >>]

\* `return {"plan": output.steps}`
ReplannerResult(output) == [plan |-> output.steps]

ReplannerInvoke ==
    /\ Driving
    /\ "replanner" \in active
    /\ pc = "regen"
    /\ tries < MaxAttempts
    /\ UNCHANGED <<prompts, outputs, answer_grade, agentVars>>
    /\ \/ /\ OnOutputParserException("replanner")
          /\ UNCHANGED checked
       \/ /\ OnException("replanner")
          /\ UNCHANGED checked
       \/ \E p \in Plans :
            LET output == [steps |-> p]
            IN  /\ checked' = <<>>
                /\ Return("replanner", ReplannerResult(output), output.steps)

----------------------------------------------------------------------------
(* The node objects called one at a time on a graph state, the way the    *)
(* graph calls them: each call gets the current state and its returned    *)
(* update is merged with the reducers of PlanExecute.  The Planner is the *)
(* entry node and is called first; after it the caller is free in the    *)
(* order of its calls, so the Replanner, which the compiled graph does    *)
(* not contain, is exercised too, and so is every replan cycle.           *)

Callable == Nodes \cup {"replanner"}

\* the keys a node reads from the state it is given
Reads(n) ==
    IF n = "planner" THEN {"messages"}
    ELSE IF n = "plan_executor" THEN {"plan"}
    ELSE {"input", "past_steps"}

CallNode ==
    /\ mode = "unit"
    /\ run = "idle"
    /\ calls < MaxCalls
    /\ \E n \in Callable :
         /\ Reads(n) \subseteq DOMAIN state
         /\ n = "planner" <=> "input" \notin DOMAIN state
         /\ active' = {n}
         /\ pc' = EntryPc({n})
         /\ log' = log \o Starts({n})
    /\ run' = "running"
    /\ calls' = calls + 1
    /\ given' = state
    /\ UNCHANGED <<state, llm_out, idx, acc, parse_fails, tries, err, faults,
                   last_ret, prompts, outputs, answer_grade, checked,
                   agentVars, mode, result, streamVars, regVars, checkVars, buildVars, pollVars>>

InitNodes ==
    /\ mode = "unit"
    /\ \E q \in Queries : state = Merge(EmptyState, prepare_initial_state(q))
    /\ g_threads = Registered("ready")
    /\ Idle

NextNodes ==
    \/ CallNode
    \/ PlannerInvoke
    \/ PlannerCheck
    \/ ExecutorStep
    \/ AnswerMakerInvoke
    \/ ReplannerInvoke

SpecNodes == InitNodes /\ [][NextNodes]_vars

----------------------------------------------------------------------------
(* Construction of the agent followed by synchronous runs.                *)
(* PlanExecuteAgentWithLangGraph.__init__ builds the Executor from the    *)
(* tool descriptions it is given; a constructor that raises leaves no     *)
(* agent to run.                                                          *)

Construct ==
    /\ mode = "new"
    /\ \E ts \in ToolSets :
         /\ tools' = ts
         /\ IF ExecutorInitOk(ts)
            THEN /\ built' = "ok"
                 /\ mode' = "none"
            ELSE /\ built' = "ValueError"
                 /\ mode' = "failed"
    /\ UNCHANGED <<nodeVars, result, calls, streamVars, regVars, checkVars,
                   pollVars>>

InitBuild ==
    /\ mode = "new"
    /\ tools = {}
    /\ built = "no"
    /\ pollers = <<>>
    /\ requests = 0
    /\ state = EmptyState
    /\ g_threads = Registered("ready")
    /\ NoRun

NextBuild ==
    \/ Construct
    \/ non_streaming_run
    \/ PlannerInvoke
    \/ PlannerCheck
    \/ ExecutorStep
    \/ AnswerMakerInvoke
    \/ SyncReturn

SpecBuild == InitBuild /\ [][NextBuild]_vars

----------------------------------------------------------------------------
(* Several streaming runs of one thread at once.  Each run is the loop of *)
(* stream_generator; what the graph computes is left out, an event is     *)
(* only something astream gives the loop.  The runs share the registry    *)
(* and its lock, and a run that cannot take the lock waits.               *)

RunIds == {"r1", "r2"}
SharedThread == "t1"

SetRun(r, p, l, a) ==
    pollers' = [pollers EXCEPT ![r] = [pos |-> p, left |-> l, acks |-> a]]

\* astream gives run r an event: the status is read under the lock; on
\* "try_cancel" the run suspends at the yield of the acknowledgment, inside
\* the with block, else at the first frame of the event
PollerPoll(r) ==
    /\ mode = "pollers"
    /\ pollers[r].pos = "next"
    /\ pollers[r].left > 0
    /\ lock = "free"
    /\ IF g_threads[SharedThread].status = "try_cancel"
       THEN /\ SetRun(r, "ack", pollers[r].left - 1, pollers[r].acks + 1)
            /\ lock' = r
       ELSE /\ SetRun(r, "frames", pollers[r].left - 1, pollers[r].acks)
            /\ UNCHANGED lock
    /\ UNCHANGED <<nodeVars, driveVars, streamVars, g_threads, reg_writes,
                   checkVars, buildVars, requests>>

\* run r is resumed at the acknowledgment: reset, break, "data: [DONE]"
PollerResumeAck(r) ==
    /\ mode = "pollers"
    /\ pollers[r].pos = "ack"
    /\ g_threads' = [g_threads EXCEPT
                       ![SharedThread] = reset_entry(g_threads[SharedThread])]
    /\ reg_writes' = Append(reg_writes,
                            [key |-> SharedThread,
                             old |-> g_threads[SharedThread],
                             new |-> g_threads'[SharedThread]])
    /\ lock' = "free"
    /\ SetRun(r, "done", pollers[r].left, pollers[r].acks)
    /\ UNCHANGED <<nodeVars, driveVars, streamVars, checkVars, buildVars,
                   requests>>

\* run r is resumed through the frames of its event, up to the next event
\* of astream or, when astream is exhausted, to "data: [DONE]"
PollerResume(r) ==
    /\ mode = "pollers"
    /\ pollers[r].pos = "frames"
    /\ SetRun(r, IF pollers[r].left = 0 THEN "done" ELSE "next",
              pollers[r].left, pollers[r].acks)
    /\ UNCHANGED <<nodeVars, driveVars, streamVars, regVars, checkVars,
                   buildVars, requests>>

\* run r is resumed at "data: [DONE]": the generator ends
PollerFinish(r) ==
    /\ mode = "pollers"
    /\ pollers[r].pos = "done"
    /\ SetRun(r, "finished", pollers[r].left, pollers[r].acks)
    /\ UNCHANGED <<nodeVars, driveVars, streamVars, regVars, checkVars,
                   buildVars, requests>>

\* the consumer of run r closes the suspended generator: GeneratorExit at
\* the yield; the with block run r is suspended in releases the lock
PollerClose(r) ==
    /\ mode = "pollers"
    /\ pollers[r].pos \in {"ack", "frames", "done"}
    /\ SetRun(r, "closed", pollers[r].left, pollers[r].acks)
    /\ lock' = IF lock = r THEN "free" ELSE lock
    /\ UNCHANGED <<nodeVars, driveVars, streamVars, g_threads, reg_writes,
                   checkVars, buildVars, requests>>

\* the session layer posts a cancellation request for the shared thread
PostCancel ==
    /\ mode = "pollers"
    /\ lock = "free"
    /\ requests < MaxRequests
    /\ g_threads[SharedThread].status # "try_cancel"
    /\ g_threads' = [g_threads EXCEPT ![SharedThread].status = "try_cancel"]
    /\ requests' = requests + 1
    /\ UNCHANGED <<nodeVars, driveVars, streamVars, lock, reg_writes,
                   checkVars, buildVars, pollers>>

InitPollers ==
    /\ mode = "pollers"
    /\ tools = DefaultTools
    /\ built = "ok"
    /\ pollers = [r \in RunIds |->
                    [pos |-> "next", left |-> MaxEvents, acks |-> 0]]
    /\ requests = 0
    /\ state = EmptyState
    /\ g_threads = Registered("running")
    /\ NoRun

NextPollers ==
    \/ \E r \in RunIds : PollerPoll(r)
    \/ \E r \in RunIds : PollerResumeAck(r)
    \/ \E r \in RunIds : PollerResume(r)
    \/ \E r \in RunIds : PollerFinish(r)
    \/ \E r \in RunIds : PollerClose(r)
    \/ PostCancel

SpecPollers == InitPollers /\ [][NextPollers]_vars

----------------------------------------------------------------------------
(* One call of the Planner, whose loops go on as long as the model and    *)
(* the plan checker answer: each attempt that is enabled is made.         *)

CallPlanner ==
    /\ CallNode
    /\ active' = {"planner"}

NextPlanner ==
    \/ CallPlanner
    \/ PlannerInvoke
    \/ PlannerCheck

SpecPlanner ==
    /\ InitNodes
    /\ [][NextPlanner]_vars
    /\ WF_vars(PlannerInvoke)
    /\ WF_vars(PlannerCheck)

----------------------------------------------------------------------------
(* One call of the Executor with the agent loop of every step unfolded.   *)
(* The loop is that of the AgentExecutor built in Executor.__init__ with  *)
(* handle_parsing_errors=True and max_iterations=50: each step of the     *)
(* loop asks the model once; a tool call or a malformed output that is    *)
(* fed back counts one iteration; a final answer ends the loop; when the  *)
(* iterations are used up the loop ends with a response whose output is   *)
(* the text that says so.                                                 *)

handle_parsing_errors == TRUE

\* the output of the response of a loop that ran out of iterations
StoppedOutput == << "Agent stopped due to iteration limit or time limit." >>

\* a loop without a limit on its iterations
without_budget(i) == TRUE

\* the loop goes on while it has taken fewer than max_iterations steps
within_budget(i) == i < max_iterations

\* a step of the loop that does not end it: a tool call, or a malformed
\* model output handed back to the model as an observation
AgentIterate ==
    /\ ExecutorAt
    /\ Len(state["plan"]) > 0
    /\ within_budget(iters)
    /\ \E malformed \in BOOLEAN :
         IF malformed /\ ~handle_parsing_errors
         THEN AgentRaises /\ UNCHANGED agentVars
         ELSE /\ iters' = iters + 1
              /\ recovered' = (recovered \/ malformed)
              /\ UNCHANGED <<state, active, run, pc, llm_out, idx, acc,
                             parse_fails, tries, err, faults, given, log,
                             last_ret, prompts, outputs, checked, driveVars,
                             streamVars, regVars, checkVars, buildVars,
                             pollVars>>

\* a step of the loop in which the model gives its final answer
AgentFinish ==
    /\ ExecutorAt
    /\ Len(state["plan"]) > 0
    /\ within_budget(iters)
    /\ AgentReturns(Outputs)
    /\ iters' = 0
    /\ UNCHANGED recovered

\* a step of the loop in which the model call or the tool raises
AgentFails ==
    /\ ExecutorAt
    /\ Len(state["plan"]) > 0
    /\ within_budget(iters)
    /\ AgentRaises
    /\ UNCHANGED agentVars

\* the iterations are used up: invoke returns the stopped response
AgentStopped ==
    /\ ExecutorAt
    /\ Len(state["plan"]) > 0
    /\ ~within_budget(iters)
    /\ AgentReturns({StoppedOutput})
    /\ iters' = 0
    /\ UNCHANGED recovered

CallExecutor ==
    /\ calls = 0
    /\ CallNode
    /\ active' = {"plan_executor"}

\* the state a Planner return leaves: the query, and a plan with a step
InitAgent ==
    /\ mode = "unit"
    /\ \E q \in Queries : \E p \in Plans :
         /\ Len(p) > 0
         /\ state = Merge(Merge(EmptyState, prepare_initial_state(q)),
                          PlannerResult(q, p))
    /\ g_threads = Registered("ready")
    /\ Idle

NextAgent ==
    \/ CallExecutor
    \/ AgentIterate
    \/ AgentFinish
    \/ AgentFails
    \/ AgentStopped

SpecAgent == InitAgent /\ [][NextAgent]_vars /\ WF_vars(NextAgent)

----------------------------------------------------------------------------
(* The two checkers called on every score the grader may produce *)

PlanStepCheckerCall ==
    /\ \E sc \in Scores :
         step_check' = << [score |-> sc, verdict |-> PlanStepChecker(sc)] >>
    /\ final_check' = <<>>
    /\ UNCHANGED <<nodeVars, driveVars, streamVars, regVars, buildVars, pollVars>>

FinalAnswerCheckerCall ==
    /\ \E sc \in Scores :
         final_check' =
            << [score |-> sc, verdict |-> FinalAnswerChecker(state, sc)] >>
    /\ step_check' = <<>>
    /\ UNCHANGED <<nodeVars, driveVars, streamVars, regVars, buildVars, pollVars>>

\* the states the checkers are called on: the state as the graph starts it
\* and as the nodes leave it (no node writes "response"), and a state a
\* direct caller supplies with the "response" key of PlanExecute set
CheckerStates ==
    { EmptyState,
      [k \in DOMAIN EmptyState \cup {"output"} |->
          IF k = "output" THEN "a1" ELSE EmptyState[k]],
      [k \in DOMAIN EmptyState \cup {"response"} |->
          IF k = "response" THEN "a1" ELSE EmptyState[k]] }

InitCheckers ==
    /\ mode = "check"
    /\ state \in CheckerStates
    /\ g_threads = Registered("ready")
    /\ Idle

NextCheckers ==
    \/ PlanStepCheckerCall
    \/ FinalAnswerCheckerCall

SpecCheckers == InitCheckers /\ [][NextCheckers]_vars

----------------------------------------------------------------------------
(* Properties *)

RECURSIVE IsSubseq(_, _)
\* a is b with some elements left out
IsSubseq(a, b) ==
    IF a = <<>> THEN TRUE
    ELSE IF b = <<>> THEN FALSE
    ELSE IF Head(a) = Head(b) THEN IsSubseq(Tail(a), Tail(b))
    ELSE IsSubseq(a, Tail(b))

Returned(n) == last_ret # <<>> /\ last_ret[1].node = n

\* C1: the run reaches END only if the answer grader accepted the answer; a
\* rejected answer never ends the run.
C1_EndOnlyIfAccepted ==
    run = "END" => FinalAnswerChecker(state, answer_grade) = END

NodeOrder == << "planner", "plan_executor", "answer_maker" >>

\* C2: the nodes of a run execute one at a time in the order planner,
\* plan_executor, answer_maker; the executor starts with the planner's plan
\* in the state, the answer maker right after the executor returned its
\* past_steps, and a node starts only after the one before it returned.
C2_OneNodeAtATime ==
    /\ Cardinality(active) <= 1
    /\ \A i \in 1..Len(log) :
         LET k == (i + 1) \div 2 IN
         /\ k <= Len(NodeOrder)
         /\ log[i].nodes = {NodeOrder[k]}
         /\ i % 2 = 1 => /\ log[i].ev = "start"
                         /\ i > 1 => log[i - 1].ev = "return"
         /\ i % 2 = 0 => log[i].ev \in {"return", "raise"}
    /\ "plan_executor" \in active =>
         /\ Returned("planner")
         /\ "plan" \in DOMAIN state
    /\ "answer_maker" \in active =>
         /\ Returned("plan_executor")
         /\ "past_steps" \in DOMAIN last_ret[1].delta

C2_Witness ==
    /\ mode = "stream"
    /\ run = "END"
    /\ Len(log) = 6

\* C3: a plan the Planner returns has at least one step, whatever the model
\* generated and the checker graded before.
C3_PlanNonEmpty ==
    /\ Returned("planner") => Len(last_ret[1].delta["plan"]) >= 1
    /\ "plan" \in DOMAIN state => Len(state["plan"]) >= 1

\* the Planner returned after a parse failure and a plan rejected as a whole
C3_Witness ==
    /\ Returned("planner")
    /\ last_ret[1].parse_fails = 1
    /\ last_ret[1].tries = 3

HasYesPrefix(s) ==
    /\ Len(s) >= 3
    /\ s[1] = "y"
    /\ s[2] = "e"
    /\ s[3] = "s"

\* C4: PlanStepChecker returns true exactly for the scores that begin with
\* the lowercase letters y, e, s, and FinalAnswerChecker returns END exactly
\* for those scores and "replan" for every other one.
C4_PrefixSemantics ==
    /\ step_check # <<>> =>
         (step_check[1].verdict = TRUE <=> HasYesPrefix(step_check[1].score))
    /\ final_check # <<>> =>
         /\ final_check[1].verdict = END <=> HasYesPrefix(final_check[1].score)
         /\ final_check[1].verdict = "replan"
              <=> ~HasYesPrefix(final_check[1].score)

C4_Witness ==
    /\ step_check # <<>>
    /\ step_check[1].score = <<"y", "e", "s", "!">>
    /\ step_check[1].verdict = TRUE

\* C5: a parse failure of the structured-output call never leaves Planner,
\* AnswerMaker or Replanner: after any number of them the node is still
\* running its call loop, and what the node returns is built from the model
\* result of the attempt that parsed.
C5_ParseFailureRetried ==
    /\ err # <<>> => err[1].type # "OutputParserException"
    /\ (parse_fails > 0 /\ err = <<>>) =>
         /\ run = "running"
         /\ pc \in {"gen", "check", "make", "regen"}
    /\ Returned("planner") =>
         IsSubseq(last_ret[1].delta["plan"], last_ret[1].from)
    /\ Returned("answer_maker") =>
         last_ret[1].delta["output"] = last_ret[1].from[1]
    /\ Returned("replanner") =>
         last_ret[1].delta["plan"] = last_ret[1].from

\* the Replanner returned after two parse failures
C5_Witness ==
    /\ Returned("replanner")
    /\ last_ret[1].parse_fails = 2

\* C6: a failure of the model call that is no parse failure leaves the node
\* at once: the run is in error with that exception, no node is active any
\* more, the call was not repeated, and the state is the one the node was
\* called with.
C6_OtherFailurePropagates ==
    faults > 0 =>
        /\ faults = 1
        /\ run = "error"
        /\ active = {}
        /\ err # <<>>
        /\ err[1].type = "Exception"
        /\ err[1].at = "llm"
        /\ state = given

\* the Replanner's model call failed after one parse failure
C6_Witness ==
    /\ faults = 1
    /\ err # <<>>
    /\ err[1].node = "replanner"
    /\ parse_fails = 1

\* C7: the past_steps an Executor call returns has one entry per step of
\* the plan it was given, entry i recording step i and the output the agent
\* produced for step i.
C7_OneEntryPerStep ==
    Returned("plan_executor") =>
        LET ps   == last_ret[1].delta["past_steps"]
            plan == last_ret[1].before["plan"]
        IN  /\ Len(ps) = Len(plan)
            /\ Len(outputs) = Len(plan)
            /\ \A i \in 1..Len(plan) :
                 /\ ps[i][2] = plan[i]
                 /\ SubSeq(ps[i], 4, Len(ps[i])) = outputs[i]

C7_Witness ==
    /\ Returned("plan_executor")
    /\ Len(last_ret[1].delta["past_steps"]) = 2
    /\ outputs = << OutApostrophe, OutMixed >>

\* a is a run of consecutive pieces of b
IsInfix(a, b) ==
    \E k \in 0..(Len(b) - Len(a)) : SubSeq(b, k + 1, k + Len(a)) = a

\* C8 as stated: the task prompt of the i-th agent call of an Executor call
\* contains the outputs of the calls before it as they were produced.
C8_PromptHoldsOutputsVerbatim ==
    \A i \in 1..Len(prompts) :
        /\ Len(outputs) >= i - 1
        /\ \A k \in 1..(i - 1) : IsInfix(outputs[k], prompts[i])

RECURSIVE HexValue(_)
\* the number a sequence of hexadecimal digits writes
HexValue(ds) ==
    IF ds = <<>> THEN 0
    ELSE 16 * HexValue(SubSeq(ds, 1, Len(ds) - 1))
         + (CHOOSE v \in 0..15 : HexDigits[v + 1] = ds[Len(ds)])

\* the character with code point n
CharOf(n) == CHOOSE c \in DOMAIN CodePoint : CodePoint[c] = n

\* the number of digits that follow the letter of an escape
EscapeDigits(e) ==
    IF e = "x" THEN 2 ELSE IF e = "u" THEN 4 ELSE IF e = "U" THEN 8 ELSE 0

\* the character an escape without digits stands for
EscapeChar(e) ==
    IF e = "n" THEN "\n" ELSE IF e = "r" THEN "\r"
    ELSE IF e = "t" THEN "\t" ELSE e

RECURSIVE ReadItems(_, _, _, _)
\* the strings of a rendered list read back piece by piece: t the pieces
\* left, q the open quote or "" outside a string, cur the string being read,
\* done the strings read
ReadItems(t, q, cur, done) ==
    IF t = <<>> THEN done
    ELSE IF q = "" THEN
        IF Head(t) \in {"'", "\""} THEN ReadItems(Tail(t), Head(t), <<>>, done)
        ELSE ReadItems(Tail(t), q, cur, done)
    ELSE IF Head(t) = q THEN ReadItems(Tail(t), "", <<>>, Append(done, cur))
    ELSE IF Head(t) # "\\" THEN ReadItems(Tail(t), q, Append(cur, Head(t)), done)
    ELSE IF Len(t) < 2 \/ Len(t) < 2 + EscapeDigits(t[2]) THEN done
    ELSE LET d == EscapeDigits(t[2])
             c == IF d = 0 THEN EscapeChar(t[2])
                  ELSE CharOf(HexValue(SubSeq(t, 3, 2 + d)))
         IN  ReadItems(SubSeq(t, 3 + d, Len(t)), q, Append(cur, c), done)

\* the entries a task prompt embeds, read back from the list it renders
PromptEntries(p) == ReadItems(SubSeq(p, 4, Len(p) - 1), "", <<>>, <<>>)

\* C8 (amended): the task prompt of the i-th agent call of an Executor call
\* names step i and ends with the rendering, as a Python list of quoted and
\* escaped strings, of the entries of the calls before it, in order, and of
\* no other call; read back, entry k is "Task is <step k>, Response is
\* <output k>"; the first prompt renders the empty list.
C8_PromptCarriesHistory ==
    \A i \in 1..Len(prompts) :
        LET p == prompts[i]
        IN  /\ p[2] = state["plan"][i]
            /\ Len(outputs) >= i - 1
            /\ p[4] = "["
            /\ p[Len(p) - 1] = "]"
            /\ p[Len(p)] = "\n"
            /\ PromptEntries(p) =
                 [k \in 1..(i - 1) |->
                    << "Task is ", state["plan"][k], ", Response is " >>
                    \o outputs[k]]

\* the second prompt of a call renders the first output, which has a newline,
\* both kinds of quote and a form feed, escaped
C8_Witness ==
    /\ Len(prompts) = 2
    /\ PromptEntries(prompts[1]) = <<>>
    /\ outputs[1] = OutMixed
    /\ \E j \in 1..(Len(prompts[2]) - 3) :
         SubSeq(prompts[2], j, j + 3) = << "\\", "x", "0", "c" >>
    /\ ~IsInfix(outputs[1], prompts[2])

\* C9: once the Planner has set input to the user request, no node update
\* changes it: input is the content of the user message, every update of a
\* node other than the Planner leaves the key out, and the state after an
\* update carries the input of the state before it.
C9_InputSetOnce ==
    /\ "input" \in DOMAIN state =>
         /\ Len(state["messages"]) = 1
         /\ state["input"] = state["messages"][1].content
    /\ "input" \notin DOMAIN state => ~Returned("planner")
    /\ (last_ret # <<>> /\ last_ret[1].node # "planner") =>
         /\ "input" \notin DOMAIN last_ret[1].delta
         /\ "input" \in DOMAIN last_ret[1].before
         /\ state["input"] = last_ret[1].before["input"]

\* the Replanner replaced the plan of a state whose input is set
C9_Witness ==
    /\ Returned("replanner")
    /\ state["input"] = "q1"
    /\ state["plan"] # last_ret[1].before["plan"]
    /\ Len(state["past_steps"]) > 0

AckCount == Cardinality({ i \in 1..Len(frames) : frames[i].kind = "ack" })

NodeFrameKinds == {"call", "field", "data"}

\* C10: a poll that reads "try_cancel" is the last poll of the stream and
\* the stream holds exactly one acknowledgment for it; there is no
\* acknowledgment without such a poll, and no frame of a node event follows
\* an acknowledgment.
C10_CancelStopsEvents ==
    /\ \A i \in 1..Len(polls) :
         polls[i] = "try_cancel" => (i = Len(polls) /\ AckCount = 1)
    /\ AckCount > 0 =>
         /\ AckCount = 1
         /\ polls # <<>>
         /\ polls[Len(polls)] = "try_cancel"
    /\ \A i \in 1..Len(frames) : \A j \in 1..Len(frames) :
         (i < j /\ frames[i].kind = "ack") =>
            frames[j].kind \notin NodeFrameKinds

\* a stream cancelled after the frames of an earlier event, and resumed to
\* its end
C10_Witness ==
    /\ spos = "finished"
    /\ AckCount = 1
    /\ Len(frames) >= 5
    /\ frames[1].kind = "call"

\* C11: a stream that emitted a cancellation acknowledgment and has ended,
\* in whatever way its consumer drove it, has reset the status of its thread.
C11_AckImpliesReset ==
    (AckCount > 0 /\ spos \in {"done", "finished", "closed"}) =>
        /\ reg_writes # <<>>
        /\ reg_writes[Len(reg_writes)].key = thread_id[1]
        /\ reg_writes[Len(reg_writes)].new.status = "ready"

\* C12: an Executor is constructed exactly from the tool sets without a
\* multi-input tool; with such a tool construction raises ValueError, no agent
\* exists and no agent invocation is ever made.
C12_MultiInputToolsRejected ==
    /\ built = "ValueError" <=> (mode # "new" /\ has_multi_tool_inputs(tools))
    /\ built = "ok" <=> (mode # "new" /\ \A t \in tools : t.nargs <= 1)
    /\ built = "ValueError" => mode = "failed" /\ run = "idle" /\ log = <<>>
    /\ prompts # <<>> => built = "ok" /\ \A t \in tools : t.nargs <= 1

\* an agent built from single-input tools has been invoked
C12_Witness ==
    /\ built = "ok"
    /\ tools = { [name |-> "clock",  nargs |-> 0],
                 [name |-> "search", nargs |-> 1] }
    /\ Len(prompts) = 2

\* C13: a synchronous run that ends without an exception returns the output
\* field of the final state, which is the answer the last AnswerMaker
\* execution wrote.
C13_SyncReturnsAnswer ==
    (mode = "sync" /\ err = <<>> /\ result # <<>>) =>
        /\ run = "END"
        /\ result = << state["output"] >>
        /\ Returned("answer_maker")
        /\ result = << last_ret[1].delta["output"] >>
        /\ result = last_ret[1].from

\* a run returned the answer "a2" for the query "q1"
C13_Witness ==
    /\ mode = "sync"
    /\ err = <<>>
    /\ result = << "a2" >>
    /\ state["input"] = "q1"

\* C14: a synchronous run in which a node raises (an exception that derives
\* from Exception) ends by returning str(e) of that exception; the failure of
\* the run is never left without a returned value.
C14_SyncReturnsErrorText ==
    mode = "sync" =>
        /\ run = "error" <=> err # <<>>
        /\ err # <<>> =>
             /\ result = << str_e(err[1].type) >>
             /\ err[1].node \in Nodes
        /\ result = <<>> => run \in {"running", "END"}

\* the agent call of the Executor failed in its second step, and the run
\* returned the message of that failure
C14_Witness ==
    /\ mode = "sync"
    /\ err # <<>>
    /\ err[1].node = "plan_executor"
    /\ Len(prompts) = 2
    /\ result = << "agent call failed" >>

\* C15: in a streaming run a failure of a node leaves the generator: the
\* consumer gets the exception, no frame is yielded after it, and
\* "data: [DONE]" is not among the frames.
C15_StreamErrorAborts ==
    (mode = "stream" /\ err # <<>>) =>
        /\ spos = "raised"
        /\ run = "error"
        /\ Len(frames) = err[1].nframes
        /\ \A i \in 1..Len(frames) : frames[i] # Done

\* the answer maker failed after the events of the two earlier nodes were
\* streamed
C15_Witness ==
    /\ mode = "stream"
    /\ err # <<>>
    /\ err[1].node = "answer_maker"
    /\ spos = "raised"
    /\ Len(frames) > 4

\* the fields each node returns, in the order of its dict
FieldsOf(n) ==
    IF n = "planner" THEN << "input", "plan" >>
    ELSE IF n = "plan_executor" THEN << "past_steps" >>
    ELSE << "output" >>

\* the kind, node and field of every frame the completed node executions
\* call for, in the order the executions completed
ExpectedShape ==
    LET rets == SelectSeq(log, LAMBDA e : e.ev = "return")
        node(i) == CHOOSE n \in rets[i].nodes : TRUE
        one(i) == << << "call", node(i), "-" >> >>
                  \o [j \in 1..Len(FieldsOf(node(i))) |->
                        << "field", node(i), FieldsOf(node(i))[j] >>]
                  \o << << "data", node(i), "-" >> >>
    IN  Flatten([i \in 1..Len(rets) |-> one(i)])

\* the kind, node and field of the frames of node events that were yielded
YieldedShape ==
    LET fs == SelectSeq(frames, LAMBDA f : f.kind \in NodeFrameKinds)
    IN  [i \in 1..Len(fs) |->
           << fs[i].kind, fs[i].node,
              IF fs[i].kind = "field" THEN fs[i].key ELSE "-" >>]

\* the values the yielded frames carry are those of the node's own update
FramesCarryDelta ==
    LET rets == SelectSeq(log, LAMBDA e : e.ev = "return")
        fs == SelectSeq(frames, LAMBDA f : f.kind \in NodeFrameKinds)
        \* the number of "call" frames up to frame i: the event it belongs to
        evno(i) == Cardinality({ j \in 1..i : fs[j].kind = "call" })
    IN  \A i \in 1..Len(fs) :
          /\ evno(i) \in 1..Len(rets)
          /\ fs[i].kind = "field" =>
               /\ fs[i].key \in DOMAIN rets[evno(i)].delta
               /\ fs[i].value = rets[evno(i)].delta[fs[i].key]
          /\ fs[i].kind = "data" =>
               fs[i].event = [node  |-> fs[i].node,
                              delta |-> rets[evno(i)].delta]

\* the number of completed node executions
Completed == Len(SelectSeq(log, LAMBDA e : e.ev = "return"))

\* the number of events of which the stream has yielded the first frame
Surfaced == Cardinality({ i \in 1..Len(frames) : frames[i].kind = "call" })

\* C16 as stated: the frames of node events a streaming run has yielded are,
\* in order, those of the completed node executions, and a stream that waits
\* for the next event, or has yielded "data: [DONE]", has surfaced every
\* completed execution.
C16_EveryExecutionSurfaced ==
    mode = "stream" =>
        LET yielded  == YieldedShape
            expected == ExpectedShape
        IN  /\ Len(yielded) <= Len(expected)
            /\ yielded = SubSeq(expected, 1, Len(yielded))
            /\ FramesCarryDelta
            /\ (event = <<>> /\ spos = "next") => yielded = expected
            /\ spos \in {"done", "finished"} => yielded = expected

\* C16 (amended): the frames of node events a streaming run has yielded are,
\* in order, those of the completed node executions: for each
\* "--- CALL <node> ---", one line per field of the node's update, then its
\* "data: " line, event after event; a stream that read no cancellation
\* request and waits for the next event or has ended has surfaced every
\* completed execution; a stream that read a cancellation request has
\* surfaced, whole, every completed execution but the last one, whose event
\* it held when it read the request and which it never surfaces.
C16_EventPerNodeInOrder ==
    mode = "stream" =>
        LET yielded  == YieldedShape
            expected == ExpectedShape
        IN  /\ Len(yielded) <= Len(expected)
            /\ yielded = SubSeq(expected, 1, Len(yielded))
            /\ FramesCarryDelta
            /\ (AckCount = 0 /\ event = <<>>
                   /\ spos \in {"next", "done", "finished"})
                  => yielded = expected
            /\ AckCount > 0 =>
                 /\ Surfaced = Completed - 1
                 /\ yielded # expected
                 /\ yielded # <<>> => yielded[Len(yielded)][1] = "data"

\* the events of all three nodes were streamed, each whole, and the stream
\* ended
C16_Witness ==
    /\ mode = "stream"
    /\ spos = "finished"
    /\ AckCount = 0
    /\ Len(YieldedShape) = 10
    /\ YieldedShape[5] = << "call", "plan_executor", "-" >>

RECURSIVE SumAcks(_)
SumAcks(R) ==
    IF R = {} THEN 0
    ELSE LET r == CHOOSE x \in R : TRUE
         IN  pollers[r].acks + SumAcks(R \ {r})

\* C17: runs that poll the same thread at once acknowledge a cancellation
\* request at most once between them: there are never more acknowledgments
\* than requests.
C17_OneAckPerRequest ==
    mode = "pollers" => SumAcks(RunIds) <= requests

\* what holds of the registry in every state of a run
RegistryKept ==
    /\ DOMAIN g_threads = ThreadIds
    /\ \A t \in ThreadIds :
         /\ g_threads[t].inst = Registered("ready")[t].inst
         /\ g_threads[t].created_at = Registered("ready")[t].created_at
    /\ \A i \in 1..Len(reg_writes) :
         /\ thread_id # <<>>
         /\ reg_writes[i].key = thread_id[1]
         /\ reg_writes[i].old.status = "try_cancel"
         /\ reg_writes[i].new = [reg_writes[i].old EXCEPT !.status = "ready"]
    /\ Len(reg_writes)
         <= Cardinality({ i \in 1..Len(polls) : polls[i] = "try_cancel" })
    /\ (mode = "sync" \/ thread_id = <<>>) =>
         /\ polls = <<>>
         /\ reg_writes = <<>>
         /\ lock = "free"

\* a step that changes the registry is a request of the session layer or
\* the reset of the run's own thread from "try_cancel" to "ready"
RegistryStep ==
    g_threads' # g_threads =>
        \/ /\ \E t \in ThreadIds :
                g_threads' = [g_threads EXCEPT ![t].status = "try_cancel"]
           /\ reg_writes' = reg_writes
        \/ /\ mode = "stream"
           /\ thread_id # <<>>
           /\ g_threads[thread_id[1]].status = "try_cancel"
           /\ g_threads' = [g_threads EXCEPT ![thread_id[1]].status = "ready"]
           /\ Len(reg_writes') = Len(reg_writes) + 1

\* C18: the run writes the registry only to set the status of its own thread
\* from "try_cancel" to "ready", with handle and creation time as they were;
\* it adds and removes no entry, touches no other thread's entry, writes
\* nothing after reading "ready" or "running", and neither reads nor writes
\* the registry in a stream without thread id or in a synchronous run.
C18_RegistryFootprint == [](RegistryKept) /\ [][RegistryStep]_vars

\* the run reset its own thread while a request for the other thread stayed
\* as posted
C18_Witness ==
    /\ spos = "finished"
    /\ Len(reg_writes) = 1
    /\ g_threads["t1"].status = "ready"
    /\ g_threads["t2"].status = "try_cancel"
    /\ Len(polls) = 2

\* C19: after every node update the past_steps the node was given is a
\* prefix of the new past_steps; an update of the Executor extends it by
\* exactly the entries the Executor returned, and an update of any other node
\* leaves it as it was.
C19_PastStepsAppendOnly ==
    last_ret # <<>> =>
        LET old == last_ret[1].before["past_steps"]
            new == state["past_steps"]
            d   == last_ret[1].delta
        IN  /\ Len(old) <= Len(new)
            /\ SubSeq(new, 1, Len(old)) = old
            /\ IF last_ret[1].node = "plan_executor"
               THEN new = old \o d["past_steps"]
               ELSE "past_steps" \notin DOMAIN d /\ new = old

\* a second execution of a two-step plan added its two entries to the two
\* of the first
C19_Witness ==
    /\ Returned("plan_executor")
    /\ Len(last_ret[1].before["past_steps"]) = 2
    /\ Len(last_ret[1].delta["past_steps"]) = 2
    /\ Len(state["past_steps"]) = 4

\* C20: a grading result from which no grade can be taken counts as a
\* rejection of the step: no failure leaves the plan checker, and so none
\* leaves the Planner on account of a grade.
C20_MalformedGradeRejected ==
    err # <<>> => ~(err[1].node = "planner" /\ err[1].at = "plan_checker")

\* the steps of the checks with a true verdict, in the order of the checks
RECURSIVE GradedTrue(_)
GradedTrue(cs) ==
    IF cs = <<>> THEN <<>>
    ELSE (IF Head(cs).verdict THEN << Head(cs).context >> ELSE <<>>)
         \o GradedTrue(Tail(cs))

\* C21: the Planner returns {input, plan}: input is the content of the latest
\* user message; the plan checker was called once on every step of the plan
\* last generated, in order and against that input, and plan is exactly the
\* steps it graded true, in that order, so no step of a discarded plan is in
\* it.
C21_PlanIsFilteredLastPlan ==
    Returned("planner") =>
        LET r    == last_ret[1]
            msgs == r.before["messages"]
        IN  /\ DOMAIN r.delta = {"input", "plan"}
            /\ r.delta["input"] = msgs[Len(msgs)].content
            /\ Len(checked) = Len(r.from)
            /\ \A i \in 1..Len(checked) :
                 /\ checked[i].context = r.from[i]
                 /\ checked[i].question = r.delta["input"]
            /\ r.delta["plan"] = GradedTrue(checked)

\* the Planner discarded a first plan, then kept the second step only of a
\* second plan of two different steps
C21_Witness ==
    /\ Returned("planner")
    /\ last_ret[1].tries = 2
    /\ last_ret[1].from = << "s1", "s2" >>
    /\ last_ret[1].delta["plan"] = << "s2" >>

PlannerRunning == "planner" \in active /\ run = "running"

\* the Planner returns only out of an attempt that gave a well-formed plan
\* with a step the checker accepted
PlannerReturnsAccepted ==
    Returned("planner") =>
        /\ err = <<>>
        /\ Len(last_ret[1].from) > 0
        /\ \E i \in 1..Len(checked) : checked[i].verdict
        /\ Len(state["plan"]) > 0

\* an attempt that ends in a parse failure, an empty plan or a plan rejected
\* in full neither returns nor raises: the Planner is back at a fresh
\* generation call, and every generation call is counted
PlannerLoopStep ==
    LET parse_failure == parse_fails' = parse_fails + 1
        rejected == /\ pc = "check"
                    /\ idx = Len(llm_out)
                    /\ Len(checked') = Len(llm_out)
                    /\ \A i \in 1..Len(checked') : ~checked'[i].verdict
        empty == pc = "gen" /\ tries' = tries + 1 /\ llm_out' = <<>>
                 /\ parse_fails' = parse_fails /\ err' = <<>>
    IN  PlannerRunning =>
          /\ (parse_failure \/ rejected \/ empty) =>
               /\ PlannerRunning'
               /\ pc' = "gen"
               /\ err' = <<>>
               /\ last_ret' = last_ret
               /\ state' = state
          /\ (pc = "gen" /\ (llm_out' # llm_out \/ pc' = "check")) =>
               tries' = tries + 1
          /\ (pc = "check" /\ pc' = "check") => llm_out' = llm_out

\* C22: the Planner returns only with a well-formed plan that has an accepted
\* step; a parse failure or a plan rejected in full sends it back to a fresh
\* generation call without a return or an exception; and it never stops in
\* between: a running Planner returns, raises, or goes on to the next
\* generation call for as long as calls are followed.
C22_PlannerLoopsUntilAccepted ==
    /\ [](PlannerReturnsAccepted)
    /\ [][PlannerLoopStep]_vars
    /\ (PlannerRunning ~>
          (Returned("planner") \/ err # <<>>
             \/ (PlannerRunning /\ pc = "gen" /\ tries = MaxAttempts)))

\* the Planner returned from its third generation call, after a parse
\* failure and a plan that was rejected in full
C22_Witness ==
    /\ Returned("planner")
    /\ last_ret[1].parse_fails = 1
    /\ last_ret[1].tries = 3
    /\ Len(state["plan"]) > 0

ExecutorRunning == "plan_executor" \in active /\ run = "running"

\* one agent call per step of the plan, in plan order, each within the
\* iteration limit; a malformed model output never leaves the loop
AgentBudgetKept ==
    /\ iters \in 0..max_iterations
    /\ ExecutorRunning =>
         /\ Len(prompts) = idx - 1
         /\ \A i \in 1..Len(prompts) : prompts[i][2] = state["plan"][i]
    /\ Returned("plan_executor") =>
         /\ Len(prompts) = Len(state["plan"])
         /\ \A i \in 1..Len(prompts) : prompts[i][2] = state["plan"][i]
         /\ Len(last_ret[1].delta["past_steps"]) = Len(state["plan"])
    /\ err # <<>> => err[1].type # "OutputParserException"

\* C23: every Executor call ends; the agent loop of a step takes at most
\* max_iterations (50) steps, malformed model outputs included, which are
\* fed back and never leave the loop; the agent is invoked once per step of
\* the plan, in plan order.
C23_ExecutorTerminates ==
    /\ [](AgentBudgetKept)
    /\ (ExecutorRunning ~> ~ExecutorRunning)

\* an Executor call returned after a step whose loop used all its iterations,
\* a malformed output among them, and a second step
C23_Witness ==
    /\ Returned("plan_executor")
    /\ recovered
    /\ Len(prompts) = 2
    /\ outputs[1] = StoppedOutput

\* C24: a failure of the agent loop of a step, running out of iterations
\* included, ends the Executor call with the exception: the run is in error,
\* no later step is executed and the state is the one the Executor was
\* given; no step that ran out of iterations is recorded with an output.
C24_AgentFailureIsFatal ==
    /\ (err # <<>> /\ err[1].node = "plan_executor") =>
         /\ run = "error"
         /\ active = {}
         /\ state = given
         /\ Len(prompts) = Len(outputs) + 1
    /\ \A i \in 1..Len(outputs) : outputs[i] # StoppedOutput

\* C25: the Replanner returns as plan exactly the steps of the first model
\* output that parsed, whatever they are: the plan checker is not called on
\* them, and the plan may be empty.
C25_ReplannerUnfiltered ==
    Returned("replanner") =>
        LET r == last_ret[1]
        IN  /\ r.delta = [plan |-> r.from]
            /\ state["plan"] = r.from
            /\ r.tries = r.parse_fails + 1
            /\ checked = <<>>

\* the Replanner returned an empty plan, after the Planner and a parse
\* failure of its own
C25_Witness ==
    /\ Returned("replanner")
    /\ last_ret[1].parse_fails = 1
    /\ last_ret[1].before["plan"] # <<>>
    /\ state["plan"] = <<>>

\* the fields a node writes
Writes(n) ==
    IF n = "planner" THEN {"input", "plan"}
    ELSE IF n = "plan_executor" THEN {"past_steps"}
    ELSE IF n = "answer_maker" THEN {"output"}
    ELSE {"plan"}

\* C26: the update of a node has the node's own fields and no other: input
\* and plan for the Planner, past_steps for the Executor, output for the
\* AnswerMaker, plan for the Replanner; every other field of the state,
\* messages among them, is after the update what it was before, and plan
\* changes only with an update of the Planner or the Replanner.
C26_NodesWriteOwnFields ==
    last_ret # <<>> =>
        LET r == last_ret[1]
            W == Writes(r.node)
        IN  /\ DOMAIN r.delta = W
            /\ DOMAIN state = DOMAIN r.before \cup W
            /\ \A k \in DOMAIN r.before \ W : state[k] = r.before[k]
            /\ state["messages"] = r.before["messages"]
            /\ r.node \notin {"planner", "replanner"} =>
                 state["plan"] = r.before["plan"]
            /\ r.node = "answer_maker" =>
                 state["output"] = r.delta["output"]

\* the AnswerMaker wrote a second answer over the first, with plan and
\* past_steps as the Planner and the Executor left them
C26_Witness ==
    /\ Returned("answer_maker")
    /\ "output" \in DOMAIN last_ret[1].before
    /\ last_ret[1].before["output"] # state["output"]
    /\ Len(state["plan"]) = 2

\* how often the log has the given event of node n
Count(n, ev) ==
    Cardinality({ i \in 1..Len(log) : log[i].ev = ev /\ log[i].nodes = {n} })

\* C27: in a run of the compiled graph every node is executed at most once;
\* the run is at END exactly when planner, plan_executor and answer_maker
\* have each been executed once and have returned; no Replanner and no
\* FinalAnswerChecker is ever executed, so a run has one planning cycle.
C27_OnePlanningCycle ==
    mode \in {"sync", "stream"} =>
        /\ "replanner" \notin active
        /\ pc # "regen"
        /\ final_check = <<>>
        /\ \A i \in 1..Len(log) : log[i].nodes \subseteq Nodes
        /\ \A n \in Nodes : Count(n, "start") <= 1 /\ Count(n, "return") <= 1
        /\ run = "END" <=>
             \A n \in Nodes : Count(n, "start") = 1 /\ Count(n, "return") = 1
        /\ run = "END" => Len(log) = 2 * Cardinality(Nodes)

\* a synchronous run at END whose answer the grader would have rejected
C27_Witness ==
    /\ mode = "sync"
    /\ run = "END"
    /\ Len(log) = 6
    /\ ~startswith(answer_grade, Yes)

\* the kind, node and field of the frames of the first m completed node
\* executions
ShapeOfFirst(m) ==
    LET rets == SelectSeq(log, LAMBDA e : e.ev = "return")
        node(i) == CHOOSE n \in rets[i].nodes : TRUE
        one(i) == << << "call", node(i), "-" >> >>
                  \o [j \in 1..Len(FieldsOf(node(i))) |->
                        << "field", node(i), FieldsOf(node(i))[j] >>]
                  \o << << "data", node(i), "-" >> >>
    IN  Flatten([i \in 1..m |-> one(i)])

DoneCount == Cardinality({ i \in 1..Len(frames) : frames[i] = Done })

\* C28: a stream that read the cancellation request at its k-th event has
\* yielded the frames of the first k-1 events, whole and in order, then the
\* acknowledgment, and nothing of the k-th event although its node has
\* completed; resumed, it yields "data: [DONE]" once, as its last frame, as a
\* stream that ran to completion does.
C28_CancelledStreamShape ==
    /\ AckCount > 0 =>
         LET k == Len(polls)
             n == Len(YieldedShape)
         IN  /\ Cardinality({ i \in 1..Len(log) : log[i].ev = "return" }) = k
             /\ YieldedShape = ShapeOfFirst(k - 1)
             /\ \A i \in 1..n : frames[i].kind \in NodeFrameKinds
             /\ frames[n + 1] = Ack
             /\ Len(frames) \in {n + 1, n + 2}
             /\ spos \in {"ack", "done", "finished", "closed"}
             /\ spos \in {"done", "finished"} => Len(frames) = n + 2
             /\ spos = "ack" => Len(frames) = n + 1
    /\ DoneCount <= 1
    /\ spos \in {"done", "finished"} =>
         /\ DoneCount = 1
         /\ frames[Len(frames)] = Done
    /\ DoneCount = 1 => spos \in {"done", "finished", "closed"}

\* the request was read at the third event: the frames of planner and
\* plan_executor, the acknowledgment and the sentinel were yielded
C28_Witness ==
    /\ spos = "finished"
    /\ AckCount = 1
    /\ Len(polls) = 3
    /\ Returned("answer_maker")
    /\ frames[Len(frames) - 1] = Ack
    /\ frames[Len(frames)] = Done

\* C29: a stream suspended at a yield, the acknowledgment included, does not
\* hold the lock of the registry.
C29_NoLockWhileSuspended ==
    spos \in {"ack", "frames", "done"} => lock = "free"

\* C30: when a stream with a thread id yields "data: [DONE]", the status of
\* its thread is not "try_cancel": a request posted while the run was in
\* progress has been consumed by then.
C30_NoStaleRequestAtDone ==
    at_done # <<>> => at_done[1] # "try_cancel"

====
